---- MODULE Spec2Model ----
(***************************************************************************)
(* The ledger of the cash-flow tracker (src/main.py): the three session    *)
(* state fields, the three commands main() handles on a button click, and  *)
(* the derived views computed from the ledger.                             *)
(*                                                                         *)
(* Money is counted in whole hundredths of a rupee, the resolution of the  *)
(* "%.2f" number inputs and of every value the pages show, so an amount is *)
(* an integer and the arithmetic of the model is exact.  The code holds    *)
(* the same values as binary floats; their rounding below a hundredth is   *)
(* not modelled.  A transaction is its amount and its description: the two     *)
(* clock readings add_transaction stores with it ('timestamp', 'date') are *)
(* written once, read by no command and only copied into the views, and    *)
(* are left out together with the columns that show them.                  *)
(***************************************************************************)
EXTENDS Integers, Sequences, FiniteSets, TLC

\* Bounds of the model.
MaxAmount == 2
MaxTransactions == 3

\* The amounts a command may be given.  The number_input widgets deliver
\* only values >= their min_value (0.0 and 0.01); the handlers test the
\* amount themselves and are modelled for every amount, which covers the
\* widgets' ranges.
Amounts == -1 .. MaxAmount

\* The texts of the description input; "" is the input left blank.
Descriptions == {"", "Groceries", "Gas"}

VARIABLES
    transactions,     \* st.session_state.transactions
    initial_balance,  \* st.session_state.initial_balance
    is_initialized,   \* st.session_state.is_initialized
    command,          \* the button of the last script run that had a click
    result            \* what that run did with the command

ledger == <<transactions, initial_balance, is_initialized>>
vars == <<transactions, initial_balance, is_initialized, command, result>>

\* None, as returned by the chart builders.
None == [kind |-> "None"]

----------------------------------------------------------------------------
\* initialize_session_state, on the first script run of a session.
Init ==
    /\ transactions = <<>>
    /\ initial_balance = 0
    /\ is_initialized = FALSE
    /\ command = "none"
    /\ result = "None"

\* sum(transaction['amount'] for transaction in ...): a left fold from 0.
RECURSIVE total_expenses(_)
total_expenses(txns) ==
    IF txns = <<>> THEN 0
    ELSE total_expenses(SubSeq(txns, 1, Len(txns) - 1)) + txns[Len(txns)].amount

\* Mutant: the balance is clamped at zero.
calculate_current_balance_clamped ==
    IF ~is_initialized THEN 0
    ELSE IF initial_balance - total_expenses(transactions) < 0 THEN 0
         ELSE initial_balance - total_expenses(transactions)

calculate_current_balance ==
    IF ~is_initialized THEN 0
    ELSE initial_balance - total_expenses(transactions)

\* Mutant: the new transaction is put in front of the list.
add_transaction_prepends(amount, description) ==
    <<[amount |-> amount, description |-> description]>> \o transactions

add_transaction(amount, description) ==
    Append(transactions, [amount |-> amount, description |-> description])

\* Mutant: each point is the first point less one amount, not cumulative.
RECURSIVE balance_loop_not_cumulative(_, _, _)
balance_loop_not_cumulative(txns, running_balance, balance_history) ==
    IF txns = <<>>
    THEN [kind |-> "Figure",
          Balance |-> balance_history,
          Transaction |-> [i \in 1 .. Len(balance_history) |-> i - 1]]
    ELSE LET transaction == Head(txns)
             balance == balance_history[1] - transaction.amount
         IN  balance_loop_not_cumulative(Tail(txns), balance,
                                         Append(balance_history, balance))

\* The loop of create_balance_visualization over the transactions left.
RECURSIVE balance_loop(_, _, _)
balance_loop(txns, running_balance, balance_history) ==
    IF txns = <<>>
    THEN [kind |-> "Figure",
          Balance |-> balance_history,
          Transaction |-> [i \in 1 .. Len(balance_history) |-> i - 1]]
    ELSE LET transaction == Head(txns)
             balance == running_balance - transaction.amount
         IN  balance_loop(Tail(txns), balance, Append(balance_history, balance))

create_balance_visualization ==
    IF transactions = <<>> THEN None
    ELSE balance_loop(transactions, initial_balance, <<initial_balance>>)

\* Mutant: a repeated description overwrites its group instead of adding.
group_step_overwrites(expense_data, transaction) ==
    LET desc == transaction.description
    IN  [d \in DOMAIN expense_data \cup {desc} |->
            IF d = desc THEN transaction.amount ELSE expense_data[d]]

\* One pass of the grouping loop of create_expense_breakdown.
group_step(expense_data, transaction) ==
    LET desc == transaction.description
    IN  IF desc \in DOMAIN expense_data
        THEN [expense_data EXCEPT ![desc] = @ + transaction.amount]
        ELSE [d \in DOMAIN expense_data \cup {desc} |->
                 IF d = desc THEN transaction.amount ELSE expense_data[d]]

\* The dict expense_data after the loop over txns.
RECURSIVE group_expenses(_)
group_expenses(txns) ==
    IF txns = <<>> THEN [d \in {} |-> 0]
    ELSE group_step(group_expenses(SubSeq(txns, 1, Len(txns) - 1)),
                    txns[Len(txns)])

create_expense_breakdown ==
    IF transactions = <<>> THEN None
    ELSE LET expense_data == group_expenses(transactions)
         IN  IF Cardinality(DOMAIN expense_data) > 1
             THEN [kind |-> "Figure", values |-> expense_data]
             ELSE None

\* f"{amount:.2f}" of an amount counted in hundredths.
format_2f(amount) ==
    LET a == IF amount < 0 THEN -amount ELSE amount
        frac == a % 100
    IN  (IF amount < 0 THEN "-" ELSE "") \o ToString(a \div 100) \o "."
        \o (IF frac < 10 THEN "0" ELSE "") \o ToString(frac)

\* The rows of the history table; <<>> stands for the "no transactions yet"
\* notice shown instead of a table.
display_transaction_history ==
    [i \in 1 .. Len(transactions) |->
        LET t == transactions[Len(transactions) + 1 - i]
        IN  [Description |-> t.description,
             Amount |-> format_2f(t.amount)]]

----------------------------------------------------------------------------
\* Mutant: the reset leaves the starting balance in place.
Reset_keeps_balance ==
    /\ transactions' = <<>>
    /\ is_initialized' = FALSE
    /\ command' = "reset"
    /\ result' = "Ok"
    /\ UNCHANGED initial_balance

\* The "Reset All Data" button: handled in the sidebar of every page.
Reset ==
    /\ transactions' = <<>>
    /\ initial_balance' = 0
    /\ is_initialized' = FALSE
    /\ command' = "reset"
    /\ result' = "Ok"

\* Mutant: the button is handled on the dashboard too.
SetInitialBalance_overwrites(amount) ==
    /\ command' = "setInitialBalance"
    /\ UNCHANGED transactions
    /\ IF amount > 0
       THEN /\ initial_balance' = amount
            /\ is_initialized' = TRUE
            /\ result' = "Ok"
       ELSE /\ UNCHANGED <<initial_balance, is_initialized>>
            /\ result' = "InvalidAmount"

\* Mutant: the amount is tested with >= instead of >.
SetInitialBalance_accepts_zero(amount) ==
    /\ command' = "setInitialBalance"
    /\ UNCHANGED transactions
    /\ IF ~is_initialized
       THEN IF amount >= 0
            THEN /\ initial_balance' = amount
                 /\ is_initialized' = TRUE
                 /\ result' = "Ok"
            ELSE /\ UNCHANGED <<initial_balance, is_initialized>>
                 /\ result' = "InvalidAmount"
       ELSE /\ UNCHANGED <<initial_balance, is_initialized>>
            /\ result' = "AlreadyInitialized"

\* The "Set Initial Balance" button.  It exists only on the setup page, the
\* branch main() takes while is_initialized is false; on the dashboard the
\* command has no handler and the ledger is left as it is.
SetInitialBalance(amount) ==
    /\ command' = "setInitialBalance"
    /\ UNCHANGED transactions
    /\ IF ~is_initialized
       THEN IF amount > 0
            THEN /\ initial_balance' = amount
                 /\ is_initialized' = TRUE
                 /\ result' = "Ok"
            ELSE /\ UNCHANGED <<initial_balance, is_initialized>>
                 /\ result' = "InvalidAmount"
       ELSE /\ UNCHANGED <<initial_balance, is_initialized>>
            /\ result' = "AlreadyInitialized"

\* The description stored for the text of the description input.
description_of(expense_description) ==
    IF expense_description # "" THEN expense_description ELSE "General Expense"

\* Mutant: the button is handled on the setup page too.
AddExpense_unguarded(expense_amount, expense_description) ==
    /\ command' = "addExpense"
    /\ UNCHANGED <<initial_balance, is_initialized>>
    /\ IF expense_amount > 0
       THEN /\ Len(transactions) < MaxTransactions
            /\ transactions' = add_transaction(expense_amount,
                                               description_of(expense_description))
            /\ result' = "Ok"
       ELSE /\ UNCHANGED transactions
            /\ result' = "InvalidAmount"

\* Mutant: the amount is tested with >= instead of >.
AddExpense_accepts_zero(expense_amount, expense_description) ==
    /\ command' = "addExpense"
    /\ UNCHANGED <<initial_balance, is_initialized>>
    /\ IF is_initialized
       THEN IF expense_amount >= 0
            THEN /\ Len(transactions) < MaxTransactions
                 /\ transactions' = add_transaction(expense_amount,
                                                    description_of(expense_description))
                 /\ result' = "Ok"
            ELSE /\ UNCHANGED transactions
                 /\ result' = "InvalidAmount"
       ELSE /\ UNCHANGED transactions
            /\ result' = "NotInitialized"

\* Mutant: the amount is not tested at all.
AddExpense_any_amount(expense_amount, expense_description) ==
    /\ command' = "addExpense"
    /\ UNCHANGED <<initial_balance, is_initialized>>
    /\ IF is_initialized
       THEN /\ Len(transactions) < MaxTransactions
            /\ transactions' = add_transaction(expense_amount,
                                               description_of(expense_description))
            /\ result' = "Ok"
       ELSE /\ UNCHANGED transactions
            /\ result' = "NotInitialized"

\* The "Add Expense" button.  It exists only on the dashboard, the branch
\* main() takes while is_initialized is true.
AddExpense(expense_amount, expense_description) ==
    /\ command' = "addExpense"
    /\ UNCHANGED <<initial_balance, is_initialized>>
    /\ IF is_initialized
       THEN IF expense_amount > 0
            THEN /\ Len(transactions) < MaxTransactions
                 /\ transactions' = add_transaction(expense_amount,
                                                    description_of(expense_description))
                 /\ result' = "Ok"
            ELSE /\ UNCHANGED transactions
                 /\ result' = "InvalidAmount"
       ELSE /\ UNCHANGED transactions
            /\ result' = "NotInitialized"

Next ==
    \/ Reset
    \/ \E amount \in Amounts : SetInitialBalance(amount)
    \/ \E amount \in Amounts, d \in Descriptions : AddExpense(amount, d)

Spec == Init /\ [][Next]_vars

----------------------------------------------------------------------------
\* Sums written independently of the code's loops, for stating the claims.

\* The sum of the amounts of a sequence of transactions, from the head.
RECURSIVE SumAmounts(_)
SumAmounts(txns) ==
    IF txns = <<>> THEN 0 ELSE Head(txns).amount + SumAmounts(Tail(txns))

\* The sum of the first k amounts of the ledger.
PrefixSum(k) == SumAmounts(SubSeq(transactions, 1, k))

\* The sum of the amounts recorded under one description.
SumOfDescription(desc) ==
    SumAmounts(SelectSeq(transactions, LAMBDA t : t.description = desc))

\* The sum of the values of a function.
RECURSIVE SumValues(_)
SumValues(f) ==
    IF DOMAIN f = {} THEN 0
    ELSE LET d == CHOOSE x \in DOMAIN f : TRUE
         IN  f[d] + SumValues([x \in DOMAIN f \ {d} |-> f[x]])

DistinctDescriptions ==
    {transactions[i].description : i \in 1 .. Len(transactions)}

\* The ledger as initialize_session_state creates it.
FreshLedger ==
    /\ transactions = <<>>
    /\ initial_balance = 0
    /\ is_initialized = FALSE

----------------------------------------------------------------------------
C1_BalanceIs ==
    calculate_current_balance =
        IF is_initialized THEN initial_balance - SumAmounts(transactions) ELSE 0

C1_ExpenseStep ==
    \A a \in Amounts, d \in Descriptions :
        (is_initialized /\ a > 0 /\ AddExpense(a, d)) =>
            /\ result' = "Ok"
            /\ calculate_current_balance' = calculate_current_balance - a

\* C1: after any sequence of commands the current balance is 0 on a ledger
\* that is not initialized and otherwise the initial balance minus the sum
\* of all recorded amounts; every accepted expense lowers it by exactly its
\* amount, below zero too, and an expense is accepted whatever the balance.
C1_CurrentBalance ==
    C1_BalanceIs /\ [][C1_BalanceIs' /\ C1_ExpenseStep]_vars

\* An expense larger than the remaining balance was accepted: the balance
\* is negative.
C1_Witness ==
    /\ is_initialized
    /\ command = "addExpense" /\ result = "Ok"
    /\ calculate_current_balance < 0

\* C2: an addExpense on a ledger that is not initialized fails with
\* NotInitialized and changes nothing of the ledger, which stays empty.
C2_AddExpenseNotInitialized ==
    [][ (~is_initialized /\ \E a \in Amounts, d \in Descriptions : AddExpense(a, d))
        => (/\ result' = "NotInitialized"
            /\ UNCHANGED ledger
            /\ transactions' = <<>>) ]_vars

\* An addExpense was refused on a ledger that is not initialized.
C2_Witness ==
    /\ command = "addExpense" /\ result = "NotInitialized"
    /\ ~is_initialized /\ transactions = <<>>

C3_Rejected ==
    \A a \in Amounts :
        (a <= 0 /\ (SetInitialBalance(a) \/ \E d \in Descriptions : AddExpense(a, d)))
        => /\ UNCHANGED ledger
           /\ result' # "Ok"
           /\ (~is_initialized /\ command' = "setInitialBalance")
                 => (result' = "InvalidAmount" /\ ~is_initialized' /\ initial_balance' = 0)
           /\ (is_initialized /\ command' = "addExpense")
                 => result' = "InvalidAmount"

C3_AmountsPositive ==
    \A i \in 1 .. Len(transactions) : transactions[i].amount > 0

\* C3: a command given an amount <= 0 is rejected and leaves the ledger
\* unchanged, with InvalidAmount where the command applies to the ledger
\* (setInitialBalance before initialization, which stays uninitialized with
\* balance 0, and addExpense after it); every stored amount is > 0.
C3_InvalidAmount ==
    C3_AmountsPositive /\ [][C3_Rejected /\ C3_AmountsPositive']_vars

\* An expense of a non-positive amount was refused on a ledger with entries.
C3_Witness ==
    /\ command = "addExpense" /\ result = "InvalidAmount"
    /\ Len(transactions) > 0

\* C4: setInitialBalance on an initialized ledger is a rejected no-op, and
\* while the ledger stays initialized the initial balance never changes.
C4_SetOnce ==
    [][ /\ (is_initialized /\ \E a \in Amounts : SetInitialBalance(a))
            => (UNCHANGED ledger /\ result' = "AlreadyInitialized")
        /\ (is_initialized /\ is_initialized')
            => initial_balance' = initial_balance ]_vars

\* A second setInitialBalance was refused on a ledger with entries.
C4_Witness ==
    /\ command = "setInitialBalance" /\ result = "AlreadyInitialized"
    /\ is_initialized /\ Len(transactions) > 0

\* C5: reset can be taken in every state and succeeds; the state it leaves
\* is the fresh ledger, whose queries return 0, absent and absent; and no
\* state shows a ledger that is only partly cleared.
C5_Reset ==
    /\ ENABLED Reset
    /\ command = "reset" =>
          /\ result = "Ok"
          /\ FreshLedger
          /\ calculate_current_balance = 0
          /\ create_balance_visualization = None
          /\ create_expense_breakdown = None
    /\ ~is_initialized => (initial_balance = 0 /\ transactions = <<>>)

\* A reset has been the last command.
C5_Witness ==
    /\ command = "reset" /\ result = "Ok"
    /\ FreshLedger

C8_AppendOnly ==
    \/ transactions' = transactions
    \/ /\ Len(transactions') = Len(transactions) + 1
       /\ SubSeq(transactions', 1, Len(transactions)) = transactions
    \/ transactions' = <<>>

\* C8: in every step the ledger's transactions stay as they are, gain one
\* transaction at the end, or become empty (a reset); nothing reorders,
\* changes or removes a single recorded transaction.
C8_TransactionsAppendOnly ==
    [][C8_AppendOnly]_vars

\* An expense was appended behind a different, earlier one.
C8_Witness ==
    /\ command = "addExpense" /\ result = "Ok"
    /\ Len(transactions) >= 2
    /\ transactions[Len(transactions)] # transactions[1]

C10_LifecycleCoupling ==
    /\ is_initialized <=> initial_balance > 0
    /\ ~is_initialized => FreshLedger
    /\ transactions # <<>> => is_initialized

\* An initialized ledger with transactions.
C10_Witness ==
    /\ is_initialized /\ initial_balance > 0
    /\ Len(transactions) = MaxTransactions
====
